---- MODULE Spec2Model ----
(***************************************************************************)
(* The SQL tokenizer of db2makedoc (sql/tokenizer.py): SQLTokenizerBase    *)
(* and the DB2 for LUW dialect.  Strings are sequences of one-character    *)
(* strings; Python's 0-based _index is kept, so source[i] of the code is   *)
(* source[i + 1] here.                                                     *)
(***************************************************************************)
EXTENDS Integers, Sequences, FiniteSets, TLC

\* ---------------------------------------------------------------- bounds
MaxLen == 3
ReuseLen == 1
MaxCalls == 2
StringLen == 5
CommentLen == 5
ParamLen == 4
HexLen == 5
IdentLen == 4
NumberLen == 4

\* ------------------------------------------------------------ characters
CR == "\r"
LF == "\n"
NUL == "<NUL>"
OOB == "<IndexError>"
NoneStr == <<"<None>">>

Alphabet == {CR, LF, " ", "a", "'", "-", ";", "!", "."}
Terminators == {<<>>, <<";">>, <<"!">>, <<"!", "!">>, <<LF>>, <<CR, LF>>}
Dialects == {"SQL92", "DB2LUW"}

Inputs == UNION {[1..n -> Alphabet] : n \in 0..MaxLen}
ReuseInputs == UNION {[1..n -> Alphabet] : n \in 0..ReuseLen}

\* inputs made of one kind of lexeme each: string literals, comments,
\* parameters, hex-string literals, identifiers, numbers
StringInputs == UNION {[1..n -> {"'", "\"", "a", CR, LF}] : n \in 0..StringLen}
CommentInputs == UNION {[1..n -> {"-", "/", "*", "a", LF, CR}] : n \in 0..CommentLen}
ParamInputs == UNION {[1..n -> {":", "?", "a", "B", " "}] : n \in 0..ParamLen}
HexInputs == UNION {[1..n -> {"x", "X", "'", "4", "g", "+"}] : n \in 0..HexLen}
IdentInputs == UNION {[1..n -> {"a", "s", "S", "1", ":", "\""}] : n \in 0..IdentLen}
NumberInputs == UNION {[1..n -> {"1", ".", "e", "+", " "}] : n \in 0..NumberLen}
LexemeInputs ==
  StringInputs \cup CommentInputs \cup ParamInputs \cup HexInputs \cup IdentInputs
    \cup NumberInputs

Digits == {"0", "1", "2", "3", "4", "5", "6", "7", "8", "9"}
LowerLetters == {"a", "b", "c", "d", "e", "f", "g", "h", "i", "j", "k", "l", "m",
  "n", "o", "p", "q", "r", "s", "t", "u", "v", "w", "x", "y", "z"}
UpperLetters == {"A", "B", "C", "D", "E", "F", "G", "H", "I", "J", "K", "L", "M",
  "N", "O", "P", "Q", "R", "S", "T", "U", "V", "W", "X", "Y", "Z"}

UpperChar(c) ==
  CASE c = "a" -> "A" [] c = "b" -> "B" [] c = "c" -> "C" [] c = "d" -> "D"
    [] c = "e" -> "E" [] c = "f" -> "F" [] c = "g" -> "G" [] c = "h" -> "H"
    [] c = "i" -> "I" [] c = "j" -> "J" [] c = "k" -> "K" [] c = "l" -> "L"
    [] c = "m" -> "M" [] c = "n" -> "N" [] c = "o" -> "O" [] c = "p" -> "P"
    [] c = "q" -> "Q" [] c = "r" -> "R" [] c = "s" -> "S" [] c = "t" -> "T"
    [] c = "u" -> "U" [] c = "v" -> "V" [] c = "w" -> "W" [] c = "x" -> "X"
    [] c = "y" -> "Y" [] c = "z" -> "Z" [] OTHER -> c

Upper(s) == [i \in 1..Len(s) |-> UpperChar(s[i])]

Elems(s) == {s[i] : i \in 1..Len(s)}

\* Python's s[a:b] for 0 <= a
Slice(s, a, b) == SubSeq(s, a + 1, IF b > Len(s) THEN Len(s) ELSE b)

\* Python's s.index(c) for c in s (0-based)
IndexOf(s, c) == (CHOOSE i \in 1..Len(s) : s[i] = c /\ \A j \in 1..(i - 1) : s[j] # c) - 1

\* Python's s[i], with the IndexError as a value
At(s, i) == IF i < Len(s) THEN s[i + 1] ELSE OOB

\* ------------------------------------------------------- dialect profiles
\* sql/dialects.py: characters legal in an unquoted identifier
SQL92IdentChars == LowerLetters \cup UpperLetters \cup Digits \cup {"_"}

DB2IdentChars == SQL92IdentChars \cup {"@", "#", "$"}

IdentChars(d) == IF d = "DB2LUW" THEN DB2IdentChars ELSE SQL92IdentChars

\* sql/dialects.py: reserved words (those the bounded inputs can spell)
Keywords(d) == {<<"A", "S">>, <<"S", "E", "L", "E", "C", "T">>}

SpaceChars == {" ", "\t", CR, LF}
SqlComments(d) == TRUE
CComments(d) == d = "DB2LUW"
CppComments(d) == FALSE
MultilineStr(d) == TRUE

\* ----------------------------------------------------------- token values
NoneVal == [k |-> "None", v |-> <<>>, n |-> 0]
StrVal(s) == [k |-> "str", v |-> s, n |-> 0]
NumVal(s) == [k |-> "num", v |-> s, n |-> 0]
\* an error message: fixed text pieces, a formatted character, a formatted number
MsgVal(s, n) == [k |-> "str", v |-> s, n |-> n]

Token(type, value, src, line, column) ==
  [type |-> type, value |-> value, source |-> src, line |-> line, column |-> column]

\* ------------------------------------------------------ cursor primitives
Raise(st, e, msg) == [st EXCEPT !.exc = e, !.excmsg = msg]

GetChar(st) ==
  IF st.index >= Len(st.source) THEN NUL
  ELSE IF st.source[st.index + 1] = CR THEN LF
  ELSE st.source[st.index + 1]

GetNextChar(st) ==
  LET s == st.source
      i == st.index
  IN  IF At(s, i) = OOB THEN NUL
      ELSE IF At(s, i) = CR THEN
        IF At(s, i + 1) = OOB THEN NUL
        ELSE IF At(s, i + 1) = LF THEN
          IF At(s, i + 2) = OOB THEN NUL
          ELSE IF At(s, i + 2) = CR THEN LF
          ELSE At(s, i + 2)
        ELSE At(s, i + 1)
      ELSE IF At(s, i + 1) = OOB THEN NUL
      ELSE IF At(s, i + 1) = CR THEN LF
      ELSE At(s, i + 1)

GetLine(st) == st.line

\* variant: the column is left 0-based
GetColumnZeroBased(st) == st.index - st.linestart

GetColumn(st) == (st.index - st.linestart) + 1

\* one iteration of the loop of _next
NextStep(st) ==
  IF st.exc # "" THEN st
  ELSE IF At(st.source, st.index) = OOB THEN Raise(st, "IndexError", NoneVal)
  ELSE IF At(st.source, st.index) = CR THEN
    IF At(st.source, st.index + 1) = OOB THEN Raise(st, "IndexError", NoneVal)
    ELSE LET ni == IF At(st.source, st.index + 1) = LF THEN st.index + 2 ELSE st.index + 1
         IN  [st EXCEPT !.index = ni, !.line = @ + 1, !.linestart = ni]
  ELSE IF At(st.source, st.index) = LF THEN
    [st EXCEPT !.index = @ + 1, !.line = @ + 1, !.linestart = st.index + 1]
  ELSE [st EXCEPT !.index = @ + 1]

RECURSIVE NextN(_, _)
NextN(st, count) == IF count > 0 THEN NextN(NextStep(st), count - 1) ELSE st

Mark(st) == IF st.exc # "" THEN st ELSE [st EXCEPT !.markedindex = st.index]

RECURSIVE NormBreaks(_)
NormBreaks(s) ==
  IF s = <<>> THEN <<>>
  ELSE IF s[1] = CR THEN
    IF Len(s) > 1 /\ s[2] = LF THEN <<LF>> \o NormBreaks(SubSeq(s, 3, Len(s)))
    ELSE <<LF>> \o NormBreaks(Tail(s))
  ELSE <<s[1]>> \o NormBreaks(Tail(s))

GetMarkedChars(st) == NormBreaks(Slice(st.source, st.markedindex, st.index))

\* variant: the start of the next token is not moved up to the cursor
AddTokenKeepStart(st, tokentype, tokenvalue) ==
  IF st.exc # "" THEN st
  ELSE [st EXCEPT
    !.tokens = Append(@, Token(tokentype, tokenvalue,
                 Slice(st.source, st.tokenstart, st.index), st.tokenline, st.tokencolumn)),
    !.tokenline = GetLine(st),
    !.tokencolumn = GetColumn(st)]

AddToken(st, tokentype, tokenvalue) ==
  IF st.exc # "" THEN st
  ELSE [st EXCEPT
    !.tokens = Append(@, Token(tokentype, tokenvalue,
                 Slice(st.source, st.tokenstart, st.index), st.tokenline, st.tokencolumn)),
    !.tokenstart = st.index,
    !.tokenline = GetLine(st),
    !.tokencolumn = GetColumn(st)]

\* ------------------------------------------------------------- jump table
BaseSymbols ==
  [c \in {"(", ")", "+", "-", "*", "/", ".", ",", ":", "?", "<", "=", ">", "'", "\"", "|", ";"} |->
    CASE c = "(" -> "open_parens" [] c = ")" -> "close_parens" [] c = "+" -> "plus"
      [] c = "-" -> "minus" [] c = "*" -> "asterisk" [] c = "/" -> "slash"
      [] c = "." -> "period" [] c = "," -> "comma" [] c = ":" -> "colon"
      [] c = "?" -> "question" [] c = "<" -> "less" [] c = "=" -> "equal"
      [] c = ">" -> "greater" [] c = "'" -> "apos" [] c = "\"" -> "quote"
      [] c = "|" -> "bar" [] c = ";" -> "semicolon"]

ZOSSymbols ==
  [c \in {"!", "^", "x", "X", "n", "N", "g", "G", "\\xac"} |->
    CASE c \in {"!", "^", "\\xac"} -> "not"
      [] c \in {"x", "X"} -> "hexstring"
      [] OTHER -> "unistring"]

LUWSymbols ==
  [c \in {"[", "]", "{", "}", "u", "U"} |->
    CASE c = "[" -> "open_bracket" [] c = "]" -> "close_bracket"
      [] c = "{" -> "open_brace" [] c = "}" -> "close_brace"
      [] OTHER -> "utf8string"]

\* SQLTokenizerBase._init_jump
BaseJump ==
  [c \in SpaceChars \cup SQL92IdentChars \cup Digits \cup DOMAIN BaseSymbols |->
    IF c \in DOMAIN BaseSymbols THEN BaseSymbols[c]
    ELSE IF c \in Digits THEN "digit"
    ELSE IF c \in SQL92IdentChars THEN "ident"
    ELSE "space"]

\* DB2LUWTokenizer._init_jump, on top of DB2ZOSTokenizer._init_jump
DB2LUWJump ==
  [c \in SpaceChars \cup DB2IdentChars \cup Digits \cup DOMAIN BaseSymbols
          \cup DOMAIN ZOSSymbols \cup DOMAIN LUWSymbols |->
    IF c \in DOMAIN LUWSymbols THEN LUWSymbols[c]
    ELSE IF c \in DOMAIN ZOSSymbols THEN ZOSSymbols[c]
    ELSE IF c \in DOMAIN BaseSymbols THEN BaseSymbols[c]
    ELSE IF c \in Digits THEN "digit"
    ELSE IF c \in DB2IdentChars THEN "ident"
    ELSE "space"]

InitJump(d) == IF d = "DB2LUW" THEN DB2LUWJump ELSE BaseJump

JumpGet(jump, c) == IF c \in DOMAIN jump THEN jump[c] ELSE "default"

\* variant: an empty terminator is accepted and leaves the table alone
SetTerminatorUnchecked(st, value) ==
  IF value = <<>> THEN st
  ELSE
    LET j1 == IF st.terminator # NoneStr
              THEN IF st.savedhandler = "None"
                   THEN [c \in DOMAIN st.jump \ {st.terminator[1]} |-> st.jump[c]]
                   ELSE [st.jump EXCEPT ![st.terminator[1]] = st.savedhandler]
              ELSE st.jump
        v  == IF value = <<CR, LF>> \/ value = <<CR>> THEN <<LF>> ELSE value
    IN  [st EXCEPT
          !.terminator = v,
          !.savedhandler = IF v[1] \in DOMAIN j1 THEN j1[v[1]] ELSE "None",
          !.jump = IF v[1] \in DOMAIN j1 THEN [j1 EXCEPT ![v[1]] = "terminator"]
                   ELSE (v[1] :> "terminator") @@ j1]

\* variant: the entry of the previous terminator is left as it is
SetTerminatorNoRestore(st, value) ==
  IF value = <<>>
  THEN Raise(st, "ValueError",
         MsgVal(<<"Statement terminator string must contain at least one character">>, 0))
  ELSE
    LET v == IF value = <<CR, LF>> \/ value = <<CR>> THEN <<LF>> ELSE value
    IN  [st EXCEPT
          !.terminator = v,
          !.savedhandler = IF v[1] \in DOMAIN st.jump THEN st.jump[v[1]] ELSE "None",
          !.jump = IF v[1] \in DOMAIN st.jump THEN [st.jump EXCEPT ![v[1]] = "terminator"]
                   ELSE (v[1] :> "terminator") @@ st.jump]

SetTerminator(st, value) ==
  IF value = <<>>
  THEN Raise(st, "ValueError",
         MsgVal(<<"Statement terminator string must contain at least one character">>, 0))
  ELSE
    LET j1 == IF st.terminator # NoneStr
              THEN IF st.savedhandler = "None"
                   THEN [c \in DOMAIN st.jump \ {st.terminator[1]} |-> st.jump[c]]
                   ELSE [st.jump EXCEPT ![st.terminator[1]] = st.savedhandler]
              ELSE st.jump
        v  == IF value = <<CR, LF>> \/ value = <<CR>> THEN <<LF>> ELSE value
    IN  [st EXCEPT
          !.terminator = v,
          !.savedhandler = IF v[1] \in DOMAIN j1 THEN j1[v[1]] ELSE "None",
          !.jump = IF v[1] \in DOMAIN j1 THEN [j1 EXCEPT ![v[1]] = "terminator"]
                   ELSE (v[1] :> "terminator") @@ j1]

\* --------------------------------------------------------------- handlers
\* str.replace(qchar * 2, qchar)
RECURSIVE Undouble(_, _)
Undouble(s, q) ==
  IF s = <<>> THEN <<>>
  ELSE IF Len(s) > 1 /\ s[1] = q /\ s[2] = q THEN <<q>> \o Undouble(SubSeq(s, 3, Len(s)), q)
  ELSE <<s[1]>> \o Undouble(Tail(s), q)

\* variant: the literal ends at the first quote that no quote follows
RECURSIVE ExtractLoopNoParity(_, _, _, _)
ExtractLoopNoParity(st, qchar, qcount, multiline) ==
  IF st.exc # "" THEN st
  ELSE IF GetChar(st) = NUL
    THEN Raise(st, "ValueError", MsgVal(<<"Unterminated string starting on line %d">>, st.tokenline))
  ELSE IF GetChar(st) = LF /\ ~multiline
    THEN Raise(st, "ValueError", MsgVal(<<"Illegal line break found in token">>, 0))
  ELSE IF GetChar(st) = qchar /\ GetNextChar(st) # qchar
    THEN st
    ELSE ExtractLoopNoParity(NextStep(st), qchar, qcount, multiline)

RECURSIVE ExtractLoop(_, _, _, _)
ExtractLoop(st, qchar, qcount, multiline) ==
  IF st.exc # "" THEN st
  ELSE IF GetChar(st) = NUL
    THEN Raise(st, "ValueError", MsgVal(<<"Unterminated string starting on line %d">>, st.tokenline))
  ELSE IF GetChar(st) = LF /\ ~multiline
    THEN Raise(st, "ValueError", MsgVal(<<"Illegal line break found in token">>, 0))
  ELSE LET qc == IF GetChar(st) = qchar THEN qcount + 1 ELSE qcount
       IN  IF GetChar(st) = qchar /\ GetNextChar(st) # qchar /\ qc % 2 = 0
           THEN st
           ELSE ExtractLoop(NextStep(st), qchar, qc, multiline)

\* the returned content is left in the ret field
\* after the loop: content = markedchars.replace(qchar*2, qchar); _next()
ExtractContent(s1, qchar) ==
  IF s1.exc # "" THEN s1
  ELSE [NextStep(s1) EXCEPT !.ret = Undouble(GetMarkedChars(s1), qchar)]

\* qchar is the character under the cursor on entry
ExtractFrom(st, qchar, multiline) ==
  ExtractContent(ExtractLoop(Mark(NextStep(st)), qchar, 1, multiline), qchar)

ExtractString(st, multiline) == ExtractFrom(st, GetChar(st), multiline)

\* "except ValueError, e: self._add_token(ERROR, str(e))"
Caught(st) == AddToken([st EXCEPT !.exc = "", !.excmsg = NoneVal], "ERROR", st.excmsg)

HandleApos(st) ==
  LET r == ExtractString(st, MultilineStr(st.dialect))
  IN  IF r.exc = "ValueError" THEN Caught(r)
      ELSE AddToken(r, "STRING", StrVal(r.ret))

SimpleOperator(st, op) == AddToken(NextStep(st), "OPERATOR", StrVal(op))

HandleAsterisk(st) == SimpleOperator(st, <<"*">>)

HandleBar(st) ==
  LET s1 == NextStep(st)
  IN  IF GetChar(s1) = "|" THEN AddToken(NextStep(s1), "OPERATOR", StrVal(<<"|", "|">>))
      ELSE AddToken(s1, "ERROR", MsgVal(<<"Invalid operator |">>, 0))

HandleCloseParens(st) == SimpleOperator(st, <<")">>)

RECURSIVE IdentLoop(_)
IdentLoop(st) ==
  IF st.exc # "" THEN st
  ELSE IF GetChar(st) \in IdentChars(st.dialect) THEN IdentLoop(NextStep(st))
  ELSE st

HandleColon(st) ==
  LET s1 == NextStep(st)
  IN  IF GetChar(s1) \in {"\"", "'"}
      THEN LET r == ExtractString(s1, FALSE)
           IN  IF r.exc = "ValueError" THEN Caught(r)
               ELSE AddToken(r, "PARAMETER", StrVal(r.ret))
      ELSE LET s2 == IdentLoop(Mark(s1))
           IN  AddToken(s2, "PARAMETER", StrVal(GetMarkedChars(s2)))

HandleComma(st) == SimpleOperator(st, <<",">>)

HandleDefault(st) ==
  LET s1 == NextStep(st)
  IN  AddToken(s1, "ERROR", MsgVal(<<"Unexpected character %s", GetChar(s1)>>, 0))

\* Decimal(text) accepts digits with at most one point and an optional
\* exponent with at least one digit; anything else the scanner can hand it
\* raises decimal.InvalidOperation, which is an ArithmeticError
IsDecimal(s) ==
  \E m \in 1..Len(s), x \in 1..(Len(s) + 1) :
    /\ m < x
    /\ \A i \in 1..(x - 1) : s[i] \in Digits \cup {"."}
    /\ Cardinality({i \in 1..(x - 1) : s[i] = "."}) <= 1
    /\ s[m] \in Digits
    /\ \/ x = Len(s) + 1
       \/ /\ s[x] \in {"E", "e"}
          /\ \E y \in (x + 1)..Len(s) :
               /\ \A i \in (x + 1)..(y - 1) : s[i] \in {"+", "-"}
               /\ y - (x + 1) <= 1
               /\ \A i \in y..Len(s) : s[i] \in Digits

RECURSIVE DigitLoop(_, _)
DigitLoop(st, validchars) ==
  IF st.exc # "" THEN st
  ELSE IF GetChar(st) \in validchars THEN
    IF GetChar(st) = "."
    THEN DigitLoop(NextStep(st), validchars \ {"."})
    ELSE IF GetChar(st) \in {"E", "e"}
    THEN DigitLoop(NextStep(IF GetNextChar(st) \in {"-", "+"} THEN NextStep(st) ELSE st),
                   validchars \ {"E", "e", "."})
    ELSE DigitLoop(NextStep(st), validchars)
  ELSE st

HandleDigit(st) ==
  LET s1 == DigitLoop(NextStep(Mark(st)), Digits \cup {"E", "e", "."})
  IN  IF s1.exc # "" THEN s1
      ELSE IF IsDecimal(GetMarkedChars(s1)) THEN AddToken(s1, "NUMBER", NumVal(GetMarkedChars(s1)))
      ELSE Raise(s1, "InvalidOperation", NoneVal)

HandleEqual(st) == SimpleOperator(st, <<"=">>)

HandleGreater(st) ==
  LET s1 == NextStep(st)
  IN  IF GetChar(s1) = "=" THEN AddToken(NextStep(s1), "OPERATOR", StrVal(<<">", "=">>))
      ELSE AddToken(s1, "OPERATOR", StrVal(<<">">>))

\* variant: the text of the identifier is kept in the case of the source
BaseHandleIdentNoFold(st) ==
  LET s1 == IdentLoop(NextStep(Mark(st)))
      ident == GetMarkedChars(s1)
  IN  IF GetChar(s1) = ":" THEN AddToken(NextStep(s1), "LABEL", StrVal(ident))
      ELSE IF ident \in Keywords(st.dialect) THEN AddToken(s1, "KEYWORD", StrVal(ident))
      ELSE AddToken(s1, "IDENTIFIER", StrVal(ident))

BaseHandleIdent(st) ==
  LET s1 == IdentLoop(NextStep(Mark(st)))
      ident == Upper(GetMarkedChars(s1))
  IN  IF GetChar(s1) = ":" THEN AddToken(NextStep(s1), "LABEL", StrVal(ident))
      ELSE IF ident \in Keywords(st.dialect) THEN AddToken(s1, "KEYWORD", StrVal(ident))
      ELSE AddToken(s1, "IDENTIFIER", StrVal(ident))

\* DB2LUWTokenizer._handle_ident rewrites the token the base handler added
LUWHandleIdent(st) ==
  LET s1 == BaseHandleIdent(st)
      last == s1.tokens[Len(s1.tokens)]
      special == {<<"I", "N", "F", "I", "N", "I", "T", "Y">>, <<"N", "A", "N">>, <<"S", "N", "A", "N">>}
  IN  IF s1.exc # "" THEN s1
      ELSE IF last.type = "IDENTIFIER" /\ last.value.v \in special
      THEN [s1 EXCEPT !.tokens[Len(s1.tokens)] =
             [last EXCEPT !.type = "NUMBER", !.value = NumVal(last.value.v)]]
      ELSE s1

HandleIdent(st) == IF st.dialect = "DB2LUW" THEN LUWHandleIdent(st) ELSE BaseHandleIdent(st)

HandleLess(st) ==
  LET s1 == NextStep(st)
  IN  IF GetChar(s1) = "=" THEN AddToken(NextStep(s1), "OPERATOR", StrVal(<<"<", "=">>))
      ELSE IF GetChar(s1) = ">" THEN AddToken(NextStep(s1), "OPERATOR", StrVal(<<"<", ">">>))
      ELSE AddToken(s1, "OPERATOR", StrVal(<<"<">>))

RECURSIVE ToEndOfLine(_)
ToEndOfLine(st) ==
  IF st.exc # "" THEN st
  ELSE IF GetChar(st) \notin {NUL, LF} THEN ToEndOfLine(NextStep(st))
  ELSE st

HandleMinus(st) ==
  LET s1 == NextStep(st)
  IN  IF SqlComments(st.dialect) /\ GetChar(s1) = "-"
      THEN LET s2 == ToEndOfLine(Mark(NextStep(s1)))
           IN  AddToken(NextStep(s2), "COMMENT", StrVal(GetMarkedChars(s2)))
      ELSE AddToken(s1, "OPERATOR", StrVal(<<"-">>))

HandleOpenParens(st) == SimpleOperator(st, <<"(">>)

BaseHandlePeriod(st) ==
  IF GetNextChar(st) \in Digits THEN HandleDigit(st)
  ELSE SimpleOperator(st, <<".">>)

LUWHandlePeriod(st) ==
  IF GetNextChar(st) = "."
  THEN NextN(AddToken(st, "OPERATOR", StrVal(<<".", ".">>)), 2)
  ELSE BaseHandlePeriod(st)

HandlePeriod(st) == IF st.dialect = "DB2LUW" THEN LUWHandlePeriod(st) ELSE BaseHandlePeriod(st)

HandlePlus(st) == SimpleOperator(st, <<"+">>)

HandleQuestion(st) == AddToken(NextStep(st), "PARAMETER", NoneVal)

HandleQuote(st) ==
  LET r == ExtractString(st, FALSE)
  IN  IF r.exc = "ValueError" THEN Caught(r)
      ELSE IF GetChar(r) = ":" THEN AddToken(NextStep(r), "LABEL", StrVal(r.ret))
      ELSE AddToken(r, "IDENTIFIER", StrVal(r.ret))

HandleSemicolon(st) == AddToken(NextStep(st), "TERMINATOR", StrVal(<<";">>))

RECURSIVE CCommentLoop(_)
CCommentLoop(st) ==
  IF st.exc # "" THEN st
  ELSE IF GetChar(st) = NUL
    THEN Raise(st, "ValueError", MsgVal(<<"Unterminated comment starting on line %d">>, st.tokenline))
  ELSE IF GetChar(st) = "*" /\ GetNextChar(st) = "/"
    THEN AddToken(NextN(st, 2), "COMMENT", StrVal(GetMarkedChars(st)))
  ELSE CCommentLoop(NextStep(st))

HandleSlash(st) ==
  LET s1 == NextStep(st)
  IN  IF CppComments(st.dialect) /\ GetChar(s1) = "/"
      THEN LET s2 == ToEndOfLine(Mark(NextStep(s1)))
           IN  AddToken(s2, "COMMENT", StrVal(GetMarkedChars(s2)))
      ELSE IF CComments(st.dialect) /\ GetChar(s1) = "*"
      THEN LET r == CCommentLoop(Mark(NextStep(s1)))
           IN  IF r.exc = "ValueError" THEN Caught(r) ELSE r
      ELSE AddToken(s1, "OPERATOR", StrVal(<<"/">>))

HandleSpace(st) ==
  LET RECURSIVE SpaceLoop(_)
      SpaceLoop(s) ==
        IF s.exc # "" THEN s
        ELSE IF GetChar(s) \in SpaceChars
        THEN IF GetChar(s) = LF THEN NextStep(s) ELSE SpaceLoop(NextStep(s))
        ELSE s
  IN  AddToken(SpaceLoop(st), "WHITESPACE", NoneVal)

\* DB2ZOSTokenizer
HandleNot(st) ==
  LET s1 == NextStep(st)
      c == GetChar(s1)
  IN  IF c \in {"=", ">", "<"}
      THEN AddToken(NextStep(s1), "OPERATOR",
             StrVal(IF c = "=" THEN <<"<", ">">> ELSE IF c = ">" THEN <<"<", "=">> ELSE <<">", "=">>))
      ELSE AddToken(s1, "ERROR", MsgVal(<<"Expected >, <, or =, but found %s", c>>, 0))

\* DB2LUWTokenizer
HandleOpenBracket(st) == SimpleOperator(st, <<"[">>)
HandleCloseBracket(st) == SimpleOperator(st, <<"]">>)
HandleOpenBrace(st) == SimpleOperator(st, <<"{">>)
HandleCloseBrace(st) == SimpleOperator(st, <<"}">>)

\* ---------------------------------------------------- DB2 string literals
HexDigits == Digits \cup {"a", "b", "c", "d", "e", "f", "A", "B", "C", "D", "E", "F"}

HexValue(c) ==
  CASE c \in {"a", "A"} -> 10 [] c \in {"b", "B"} -> 11 [] c \in {"c", "C"} -> 12
    [] c \in {"d", "D"} -> 13 [] c \in {"e", "E"} -> 14 [] c \in {"f", "F"} -> 15
    [] c = "0" -> 0 [] c = "1" -> 1 [] c = "2" -> 2 [] c = "3" -> 3 [] c = "4" -> 4
    [] c = "5" -> 5 [] c = "6" -> 6 [] c = "7" -> 7 [] c = "8" -> 8 [] c = "9" -> 9

\* the characters with codes 32 to 126
AsciiPrintable == <<
  " ", "!", "\"", "#", "$", "%", "&", "'", "(", ")", "*", "+",
  ",", "-", ".", "/", "0", "1", "2", "3", "4", "5", "6", "7",
  "8", "9", ":", ";", "<", "=", ">", "?", "@", "A", "B", "C",
  "D", "E", "F", "G", "H", "I", "J", "K", "L", "M", "N", "O",
  "P", "Q", "R", "S", "T", "U", "V", "W", "X", "Y", "Z", "[",
  "\\", "]", "^", "_", "chr(96)", "a", "b", "c", "d", "e", "f", "g",
  "h", "i", "j", "k", "l", "m", "n", "o", "p", "q", "r", "s",
  "t", "u", "v", "w", "x", "y", "z", "{", "|", "}", "~">>

\* chr(n) and unichr(n); characters outside the table are named by their code
Chr(n) ==
  IF n \in 32..126 THEN AsciiPrintable[n - 31]
  ELSE IF n = 9 THEN "\t" ELSE IF n = 10 THEN LF ELSE IF n = 13 THEN CR
  ELSE "chr(" \o ToString(n) \o ")"

RECURSIVE HexNumber(_)
HexNumber(w) == IF w = <<>> THEN 0 ELSE 16 * HexNumber(SubSeq(w, 1, Len(w) - 1)) + HexValue(w[Len(w)])

RECURSIVE StripSpace(_)
StripSpace(t) ==
  IF t # <<>> /\ t[1] \in SpaceChars THEN StripSpace(Tail(t))
  ELSE IF t # <<>> /\ t[Len(t)] \in SpaceChars THEN StripSpace(SubSeq(t, 1, Len(t) - 1))
  ELSE t

\* int(p, 16): surrounding white space, a sign and a 0x prefix are accepted
ParseInt16(p) ==
  LET t == StripSpace(p)
      u == IF t # <<>> /\ t[1] \in {"+", "-"} THEN Tail(t) ELSE t
      w == IF Len(u) >= 2 /\ u[1] = "0" /\ u[2] \in {"x", "X"} THEN SubSeq(u, 3, Len(u)) ELSE u
      ok == w # <<>> /\ \A i \in 1..Len(w) : w[i] \in HexDigits
  IN  [ok |-> ok,
       n |-> IF ~ok THEN 0 ELSE IF t[1] = "-" THEN 0 - HexNumber(w) ELSE HexNumber(w)]

\* ''.join(chr(int(s[i:i + width], 16)) for i in xrange(0, len(s), width))
RECURSIVE DecodeHex(_, _)
DecodeHex(s, width) ==
  IF s = <<>> THEN [ok |-> TRUE, v |-> <<>>, msg |-> NoneVal]
  ELSE LET p == Slice(s, 0, width)
           i == ParseInt16(p)
           rest == DecodeHex(Slice(s, width, Len(s)), width)
       IN  IF ~i.ok
           THEN [ok |-> FALSE, v |-> <<>>,
                 msg |-> MsgVal(<<"invalid literal for int() with base 16: ">> \o p, 0)]
           ELSE IF i.n < 0
           THEN [ok |-> FALSE, v |-> <<>>, msg |-> MsgVal(<<"chr() arg not in range">>, 0)]
           ELSE IF ~rest.ok THEN rest
           ELSE [ok |-> TRUE, v |-> <<Chr(i.n)>> \o rest.v, msg |-> NoneVal]

\* the literal after its opening quote was reached: extract, check, decode
\* the except ValueError / else arms, once the digits were decoded
HexDecoded(r, dec) ==
  IF ~dec.ok THEN AddToken(r, "ERROR", dec.msg) ELSE AddToken(r, "STRING", StrVal(dec.v))

\* the try block after _extract_string returned or raised
HexExtracted(r, width, lengthmsg) ==
  IF r.exc = "ValueError" THEN Caught(r)
  ELSE IF r.exc # "" THEN r
  ELSE IF Len(r.ret) % width # 0 THEN AddToken(r, "ERROR", MsgVal(<<lengthmsg>>, 0))
  ELSE HexDecoded(r, DecodeHex(r.ret, width))

HexLiteral(st, width, lengthmsg) == HexExtracted(ExtractString(st, FALSE), width, lengthmsg)

HandleHexstring(st) ==
  IF GetNextChar(st) = "'"
  THEN HexLiteral(NextStep(st), 2, "Hex-string must have an even length")
  ELSE HandleIdent(st)

HandleUnihexstring(st) ==
  IF UpperChar(GetNextChar(st)) = "X"
  THEN LET s1 == NextStep(st)
       IN  IF GetNextChar(s1) = "'"
           THEN HexLiteral(NextStep(s1), 4,
                  "Unicode hex-string must have a length which is a multiple of 4")
           ELSE HandleIdent(s1)
  ELSE HandleIdent(st)

HandleUnistring(st) ==
  IF GetNextChar(st) = "'"
  THEN LET r == ExtractString(NextStep(st), MultilineStr(st.dialect))
       IN  IF r.exc = "ValueError" THEN Caught(r)
           ELSE AddToken(r, "STRING", StrVal(r.ret))
  ELSE IF UpperChar(GetChar(st)) = "G" /\ UpperChar(GetNextChar(st)) = "X"
  THEN HandleUnihexstring(st)
  ELSE HandleIdent(st)

\* line 837 names the class attribute utf8re as if it were a global: once the
\* literal is extracted the NameError leaves the handler
HandleUtf8string(st) ==
  IF GetNextChar(st) = "&"
  THEN LET s1 == NextN(st, 2)
           r == ExtractString(s1, MultilineStr(st.dialect))
       IN  IF s1.exc # "" THEN s1
           ELSE IF GetChar(s1) # "'" THEN AddToken(s1, "ERROR", MsgVal(<<"Expecting '">>, 0))
           ELSE IF r.exc = "ValueError" THEN Caught(r)
           ELSE IF r.exc # "" THEN r
           ELSE Raise(r, "NameError", NoneVal)
  ELSE IF UpperChar(GetNextChar(st)) = "X" THEN HandleUnihexstring(st)
  ELSE HandleIdent(st)

\* a bound method taken from the jump table, called
CallHandler(h, st) ==
  CASE h = "space" -> HandleSpace(st)
    [] h = "ident" -> HandleIdent(st)
    [] h = "digit" -> HandleDigit(st)
    [] h = "open_parens" -> HandleOpenParens(st)
    [] h = "close_parens" -> HandleCloseParens(st)
    [] h = "plus" -> HandlePlus(st)
    [] h = "minus" -> HandleMinus(st)
    [] h = "asterisk" -> HandleAsterisk(st)
    [] h = "slash" -> HandleSlash(st)
    [] h = "period" -> HandlePeriod(st)
    [] h = "comma" -> HandleComma(st)
    [] h = "colon" -> HandleColon(st)
    [] h = "question" -> HandleQuestion(st)
    [] h = "less" -> HandleLess(st)
    [] h = "equal" -> HandleEqual(st)
    [] h = "greater" -> HandleGreater(st)
    [] h = "apos" -> HandleApos(st)
    [] h = "quote" -> HandleQuote(st)
    [] h = "bar" -> HandleBar(st)
    [] h = "semicolon" -> HandleSemicolon(st)
    [] h = "not" -> HandleNot(st)
    [] h = "hexstring" -> HandleHexstring(st)
    [] h = "unistring" -> HandleUnistring(st)
    [] h = "utf8string" -> HandleUtf8string(st)
    [] h = "open_bracket" -> HandleOpenBracket(st)
    [] h = "close_bracket" -> HandleCloseBracket(st)
    [] h = "open_brace" -> HandleOpenBrace(st)
    [] h = "close_brace" -> HandleCloseBrace(st)
    [] h = "default" -> HandleDefault(st)

\* str.startswith(prefix, start)
StartsWith(s, prefix, start) ==
  /\ start + Len(prefix) <= Len(s)
  /\ \A i \in 1..Len(prefix) : s[start + i] = prefix[i]

HandleTerminator(st) ==
  IF StartsWith(st.source, st.terminator, st.index)
  THEN AddToken(NextN(st, Len(st.terminator)), "TERMINATOR", StrVal(st.terminator))
  ELSE IF st.savedhandler # "None" THEN CallHandler(st.savedhandler, st)
  ELSE st

\* self._jump.get(self.char, self._handle_default)()
Dispatch(st) ==
  LET h == JumpGet(st.jump, GetChar(st))
  IN  IF h = "terminator" THEN HandleTerminator(st) ELSE CallHandler(h, st)

\* ------------------------------------------------------------------ parse
\* variant: the token list of the previous call is kept
ParseResetKeepTokens(st, s) ==
  LET s1 == [st EXCEPT !.source = s, !.index = 0, !.markedindex = -1,
                       !.line = 1, !.linestart = 0, !.tokenstart = 0]
  IN  [s1 EXCEPT !.tokenline = GetLine(s1), !.tokencolumn = GetColumn(s1),
                 !.jump = InitJump(st.dialect),
                 !.terminator = NoneStr, !.savedhandler = "None"]

\* parse, lines 164-181: every per-parse field is re-initialised
ParseReset(st, s) ==
  LET s1 == [st EXCEPT !.source = s, !.index = 0, !.markedindex = -1,
                       !.line = 1, !.linestart = 0, !.tokenstart = 0]
  IN  [s1 EXCEPT !.tokenline = GetLine(s1), !.tokencolumn = GetColumn(s1),
                 !.tokens = <<>>, !.jump = InitJump(st.dialect),
                 !.terminator = NoneStr, !.savedhandler = "None"]

\* variant: the fragment is cut before its line feed, which is lost
RECURSIVE SplitTokenDropBreak(_)
SplitTokenDropBreak(tok) ==
  IF LF \in Elems(tok.source)
  THEN LET i == IndexOf(tok.source, LF) + 1
       IN  <<Token(tok.type, tok.value, Slice(tok.source, 0, i - 1), tok.line, tok.column)>>
             \o SplitTokenDropBreak(Token(tok.type, tok.value,
                                          Slice(tok.source, i, Len(tok.source)), tok.line + 1, 1))
  ELSE <<tok>>

\* parse, lines 195-209: one token split at its line feeds
RECURSIVE SplitToken(_)
SplitToken(tok) ==
  IF LF \in Elems(tok.source)
  THEN LET insplit == tok.value.k = "str" /\ LF \in Elems(tok.value.v)
           vi == IndexOf(tok.value.v, LF) + 1
           newvalue == IF insplit THEN [tok.value EXCEPT !.v = Slice(tok.value.v, 0, vi)]
                       ELSE tok.value
           value == IF insplit THEN [tok.value EXCEPT !.v = Slice(tok.value.v, vi, Len(tok.value.v))]
                    ELSE tok.value
           i == IndexOf(tok.source, LF) + 1
       IN  <<Token(tok.type, newvalue, Slice(tok.source, 0, i), tok.line, tok.column)>>
             \o SplitToken(Token(tok.type, value, Slice(tok.source, i, Len(tok.source)),
                                 tok.line + 1, 1))
  ELSE <<tok>>

RECURSIVE SplitLines(_)
SplitLines(toks) ==
  IF toks = <<>> THEN <<>> ELSE SplitToken(Head(toks)) \o SplitLines(Tail(toks))

\* variant: the EOF token is only added to an empty token list
ParseFinishNoEOF(st, ls) ==
  LET s1 == IF st.tokens = <<>> THEN AddToken(st, "EOF", NoneVal) ELSE st
  IN  IF ls THEN [s1 EXCEPT !.tokens = SplitLines(s1.tokens)] ELSE s1

\* parse, lines 189-211: after the loop
ParseFinish(st, ls) ==
  LET s1 == AddToken(st, "EOF", NoneVal)
  IN  IF ls THEN [s1 EXCEPT !.tokens = SplitLines(s1.tokens)] ELSE s1

\* ------------------------------------------------------------------ state
VARIABLES
  dialect,        \* the tokenizer class of the instance
  pc,             \* "idle", "scan" (in the loop of parse), "done", "raised"
  exc,            \* the exception that left parse, "" if none
  calls,          \* parse calls made on the instance
  sql, arg_terminator, line_split,   \* arguments of the current call
  source, index, markedindex, line, linestart,
  tokenstart, tokenline, tokencolumn, tokens,
  jump, terminator, savedhandler,
  assigned,       \* the value last assigned to the terminator property
  statements,     \* SQLScript: the statements of the script, one per line
  stoponerror,    \* SQLScript: the constructor's stoponerror argument
  exec_pc,        \* SQLScript: "new", "loop" (in _exec_internal), "returned"
  position, returncode, on_mode, on_states   \* SQLScript._exec_internal

args == <<sql, arg_terminator, line_split>>
fields == <<source, index, markedindex, line, linestart, tokenstart, tokenline,
            tokencolumn, tokens, jump, terminator, savedhandler>>
script == <<statements, stoponerror, exec_pc, position, returncode, on_mode, on_states>>
vars == <<dialect, pc, exc, calls, args, fields, assigned, script>>

Self ==
  [dialect |-> dialect, source |-> source, index |-> index, markedindex |-> markedindex,
   line |-> line, linestart |-> linestart, tokenstart |-> tokenstart,
   tokenline |-> tokenline, tokencolumn |-> tokencolumn, tokens |-> tokens,
   jump |-> jump, terminator |-> terminator, savedhandler |-> savedhandler,
   exc |-> "", excmsg |-> NoneVal, ret |-> <<>>]

Store(r) ==
  /\ source' = r.source /\ index' = r.index /\ markedindex' = r.markedindex
  /\ line' = r.line /\ linestart' = r.linestart /\ tokenstart' = r.tokenstart
  /\ tokenline' = r.tokenline /\ tokencolumn' = r.tokencolumn /\ tokens' = r.tokens
  /\ jump' = r.jump /\ terminator' = r.terminator /\ savedhandler' = r.savedhandler

\* the fields as r leaves them; an exception that escaped r ends the call
StoreOutcome(r) ==
  /\ Store(r)
  /\ exc' = r.exc
  /\ pc' = IF r.exc # "" THEN "raised" ELSE "scan"

\* a constructed instance: __init__ sets none of the per-parse fields
Init ==
  /\ dialect \in Dialects
  /\ pc = "idle" /\ exc = "" /\ calls = 0
  /\ sql = <<>> /\ arg_terminator = <<>> /\ line_split = FALSE
  /\ source = <<>> /\ index = 0 /\ markedindex = -1 /\ line = 1 /\ linestart = 0
  /\ tokenstart = 0 /\ tokenline = 1 /\ tokencolumn = 1 /\ tokens = <<>>
  /\ jump = <<>> /\ terminator = NoneStr /\ savedhandler = "None"
  /\ assigned = NoneStr
  /\ statements = <<>> /\ stoponerror = FALSE /\ exec_pc = "new"
  /\ position = 0 /\ returncode = 0 /\ on_mode = "None" /\ on_states = <<>>

\* parse, lines 164-182: entry, up to the assignment of the terminator
ParseEnter(s, t, ls) ==
  /\ sql' = s /\ arg_terminator' = t /\ line_split' = ls
  /\ calls' = calls + 1
  /\ StoreOutcome(SetTerminator(ParseReset(Self, s), t))
  /\ assigned' = IF t = <<>> THEN NoneStr ELSE t
  /\ UNCHANGED <<dialect, script>>

\* the first call on a fresh instance
Parse ==
  /\ pc = "idle"
  /\ \E s \in Inputs, t \in Terminators, ls \in BOOLEAN : ParseEnter(s, t, ls)

\* a call on an instance that may have been used before
ParseAgain ==
  /\ pc \in {"idle", "done", "raised"}
  /\ calls < MaxCalls
  /\ \E s \in ReuseInputs, t \in Terminators, ls \in BOOLEAN : ParseEnter(s, t, ls)

\* parse, lines 187-188: one iteration of the loop
LoopStep ==
  /\ pc = "scan"
  /\ GetChar(Self) # NUL
  /\ StoreOutcome(Dispatch(Self))
  /\ UNCHANGED <<dialect, calls, args, assigned, script>>

\* parse, lines 187-211: the loop ends, the result is returned
ParseReturn ==
  /\ pc = "scan"
  /\ GetChar(Self) = NUL
  /\ Store(ParseFinish(Self, line_split))
  /\ pc' = "done"
  /\ UNCHANGED <<dialect, exc, calls, args, assigned, script>>

Next == Parse \/ LoopStep \/ ParseReturn

Spec == Init /\ [][Next]_vars

NextReuse == ParseAgain \/ LoopStep \/ ParseReturn

SpecReuse == Init /\ [][NextReuse]_vars

\* a first call with the default terminator and no line splitting, on an
\* input of one kind of lexeme
ParseLexemes ==
  /\ pc = "idle"
  /\ \E s \in LexemeInputs : ParseEnter(s, <<";">>, FALSE)

NextLexemes == ParseLexemes \/ LoopStep \/ ParseReturn

SpecLexemes == Init /\ [][NextLexemes]_vars

\* a first call with the default terminator and line splitting, on an input
\* of string literals or of comments
ParseSplit ==
  /\ pc = "idle"
  /\ \E s \in StringInputs \cup CommentInputs : ParseEnter(s, <<";">>, TRUE)

NextSplit == ParseSplit \/ LoopStep \/ ParseReturn

SpecSplit == Init /\ [][NextSplit]_vars

\* an assignment to the terminator property of an instance whose parse has
\* built the jump table; an empty value raises ValueError to the assigner
\* and leaves the instance as it was
AssignTerminator ==
  /\ calls > 0
  /\ \E t \in Terminators :
       IF t = <<>> THEN UNCHANGED <<fields, assigned>>
       ELSE Store(SetTerminator(Self, t)) /\ assigned' = t
  /\ UNCHANGED <<dialect, pc, exc, calls, args, script>>

\* the first call on a fresh instance, on a short input
ParseShort ==
  /\ pc = "idle"
  /\ \E s \in ReuseInputs, t \in Terminators, ls \in BOOLEAN : ParseEnter(s, t, ls)

NextAssign == ParseShort \/ AssignTerminator \/ LoopStep \/ ParseReturn

SpecAssign == Init /\ [][NextAssign]_vars

\* ------------------------------------------------------ script execution
\* SQLScript._exec_internal on a script of SQL statements and of statements
\* ON SQLSTATE s [RETRY mode [n]] [THEN] action, one statement per line
MaxStatements == 3
MaxRetry == 1

SqlStates == {"23505", "57033"}
RetryModes == {"SCRIPT", "STATEMENT"}
OnActions == {"CONTINUE", "STOP", "FAIL"}

SqlStatement ==
  [kind |-> "SQL", state |-> "", retry_mode |-> "None", retry_count |-> 0, action |-> ""]

\* _exec_on_statement, lines 953-968: no RETRY clause gives mode None and
\* count 0, RETRY without a number gives count -1
OnStatements ==
  {[kind |-> "ON", state |-> s, retry_mode |-> "None", retry_count |-> 0, action |-> a] :
     s \in SqlStates, a \in OnActions}
  \cup
  {[kind |-> "ON", state |-> s, retry_mode |-> m, retry_count |-> n, action |-> a] :
     s \in SqlStates, m \in RetryModes, n \in {-1} \cup 1..MaxRetry, a \in OnActions}

Scripts == UNION {[1..n -> {SqlStatement} \cup OnStatements] : n \in 1..MaxStatements}

\* what the CLP returns for a statement: success, or an error with a SQLSTATE
Outcomes == {[rc |-> 0, state |-> ""]} \cup {[rc |-> 4, state |-> s] : s \in SqlStates}

OnState(ln, retry_mode, retry_count, action) ==
  [line |-> ln, retry_mode |-> retry_mode, retry_count |-> retry_count, action |-> action]

\* a key the dictionary _on_states does not hold
NoOnState == OnState(0, "None", 0, "")

RECURSIVE BitOr(_, _)
BitOr(a, b) ==
  IF a = 0 THEN b
  ELSE IF b = 0 THEN a
  ELSE 2 * BitOr(a \div 2, b \div 2) + (IF a % 2 = 1 \/ b % 2 = 1 THEN 1 ELSE 0)

\* _exec_on_statement, lines 968-976, for a well-formed statement on line ln
ExecOnStatement(st, statement, ln) ==
  IF st[statement.state].line = ln THEN st
  ELSE [st EXCEPT ![statement.state] =
          OnState(ln, statement.retry_mode, statement.retry_count, statement.action)]

\* _exec_statement, lines 859-871: the ON state the outcome matches, "" if none
MatchedState(mode, outcome) == IF mode # "None" THEN outcome.state ELSE ""

\* _exec_internal, lines 780-821: what the loop does with the return code rc
\* and the matched ON state of the statement before position pos
React(pos, rc, key, st) ==
  IF key # "" /\ st[key].line # 0
  THEN IF st[key].retry_mode # "None" /\ st[key].retry_count # 0
       THEN /\ on_states' = [st EXCEPT ![key].retry_count = IF @ > 0 THEN @ - 1 ELSE @]
            /\ position' = IF st[key].retry_mode = "SCRIPT" THEN 0 ELSE pos - 1
            /\ UNCHANGED <<returncode, exec_pc>>
       ELSE LET rc1 == IF st[key].action \in {"CONTINUE", "FAIL"} THEN BitOr(rc, 4) ELSE rc
            IN  /\ on_states' = st /\ position' = pos
                /\ returncode' = BitOr(returncode, rc1)
                /\ exec_pc' = IF st[key].action \in {"STOP", "FAIL"} /\ ~(0 <= rc1 /\ rc1 < 4)
                              THEN "returned" ELSE "loop"
  ELSE /\ on_states' = st /\ position' = pos
       /\ returncode' = BitOr(returncode, rc)
       /\ exec_pc' = IF stoponerror /\ ~(0 <= rc /\ rc < 4) THEN "returned" ELSE "loop"

tokenizer == <<dialect, pc, exc, calls, args, fields, assigned>>

\* _exec_internal, lines 741-761: entry, on a script built with some
\* stoponerror argument
ExecInternal ==
  /\ exec_pc = "new"
  /\ \E sc \in Scripts, soe \in BOOLEAN : statements' = sc /\ stoponerror' = soe
  /\ on_mode' = "None"
  /\ on_states' = [s \in SqlStates |-> NoOnState]
  /\ returncode' = 0 /\ position' = 0
  /\ exec_pc' = "loop"
  /\ UNCHANGED tokenizer

\* _exec_internal, lines 762-821: one iteration of the statement loop
ExecStep ==
  /\ exec_pc = "loop"
  /\ position < Len(statements)
  /\ IF statements[position + 1].kind = "ON"
     THEN /\ on_mode' = "SQLSTATE"
          /\ React(position + 1, 0, "",
                   ExecOnStatement(on_states, statements[position + 1], position + 1))
     ELSE /\ UNCHANGED on_mode
          /\ \E o \in Outcomes : React(position + 1, o.rc, MatchedState(on_mode, o), on_states)
  /\ UNCHANGED <<tokenizer, statements, stoponerror>>

\* _exec_internal, lines 762 and 822: the loop ends, the return code is returned
ExecReturn ==
  /\ exec_pc = "loop"
  /\ position >= Len(statements)
  /\ exec_pc' = "returned"
  /\ UNCHANGED <<tokenizer, statements, stoponerror, position, returncode, on_mode, on_states>>

NextScript == ExecInternal \/ ExecStep \/ ExecReturn

SpecScript == Init /\ [][NextScript]_vars

\* the thread that runs _exec_internal keeps running it
SpecScriptFair == SpecScript /\ WF_vars(ExecStep) /\ WF_vars(ExecReturn)

\* ------------------------------------------------- parse as one function
Constructed(d) ==
  [dialect |-> d, source |-> <<>>, index |-> 0, markedindex |-> -1,
   line |-> 1, linestart |-> 0, tokenstart |-> 0, tokenline |-> 1, tokencolumn |-> 1,
   tokens |-> <<>>, jump |-> <<>>, terminator |-> NoneStr, savedhandler |-> "None",
   exc |-> "", excmsg |-> NoneVal, ret |-> <<>>]

\* the loop of parse, lines 187-188; an iteration that changes nothing repeats for ever
RECURSIVE RunLoop(_)
RunLoop(st) ==
  IF st.exc # "" \/ GetChar(st) = NUL THEN st
  ELSE IF Dispatch(st) = st THEN Raise(st, "<hang>", NoneVal)
  ELSE RunLoop(Dispatch(st))

\* parse(s, t, ls) on a freshly constructed tokenizer of dialect d
FreshParse(d, s, t, ls) ==
  LET r == RunLoop(SetTerminator(ParseReset(Constructed(d), s), t))
  IN  IF r.exc # "" THEN [pc |-> "raised", exc |-> r.exc, tokens |-> <<>>]
      ELSE [pc |-> "done", exc |-> "", tokens |-> ParseFinish(r, ls).tokens]

\* ----------------------------------------------------------------- claims
RECURSIVE ConcatSources(_)
ConcatSources(toks) ==
  IF toks = <<>> THEN <<>> ELSE Head(toks).source \o ConcatSources(Tail(toks))

\* offset in the input of the first character of token i
RECURSIVE Offset(_, _)
Offset(toks, i) == IF i <= 1 THEN 0 ELSE Offset(toks, i - 1) + Len(toks[i - 1].source)

\* position e (1-based) of s is the last character of a line break: a LF, or
\* a CR that no LF follows
BreakEnd(s, e) == s[e] = LF \/ (s[e] = CR /\ ~(e < Len(s) /\ s[e + 1] = LF))

LineAt(s, off) == 1 + Cardinality({e \in 1..off : BreakEnd(s, e)})

ColumnAt(s, off) ==
  LET ends == {0} \cup {e \in 1..off : BreakEnd(s, e)}
  IN  off - (CHOOSE m \in ends : \A e \in ends : e <= m) + 1

\* a line break of src is internal unless it is the final CR, CRLF or LF
InternalBreak(src) ==
  \E j \in 1..Len(src) :
    /\ src[j] \in {CR, LF}
    /\ ~(j = Len(src))
    /\ ~(j = Len(src) - 1 /\ src[j] = CR /\ src[Len(src)] = LF)

C3_NoInternalBreak ==
  (pc = "done" /\ line_split) => \A i \in 1..Len(tokens) : ~InternalBreak(tokens[i].source)

\* C4: the returned sequence is not empty, ends with an EOF token and has
\* no other EOF token, in both line_split modes
C4_EOFInvariant ==
  pc = "done" =>
    /\ Len(tokens) >= 1
    /\ tokens[Len(tokens)].type = "EOF"
    /\ \A i \in 1..(Len(tokens) - 1) : tokens[i].type # "EOF"

C4_Witness ==
  /\ pc = "done" /\ line_split
  /\ Len(tokens) >= 4
  /\ tokens[Len(tokens)].source = <<>>

\* C5: the only exception that leaves parse is the ValueError for an empty
\* terminator
C5_NeverRaises ==
  pc = "raised" => (exc = "ValueError" /\ arg_terminator = <<>>)

\* C6: every iteration of the loop of parse moves the cursor forward (or
\* ends the call)
C6_ForwardProgress ==
  (pc = "scan" /\ GetChar(Self) # NUL) =>
    (Dispatch(Self).exc # "" \/ Dispatch(Self).index > index)

\* C7: parse with an empty terminator raises ValueError before a character
\* is scanned, and returns no tokens
C7_EmptyTerminator ==
  (pc # "idle" /\ arg_terminator = <<>>) =>
    /\ pc = "raised" /\ exc = "ValueError"
    /\ index = 0 /\ tokens = <<>>

C7_Witness ==
  /\ pc = "raised" /\ exc = "ValueError"
  /\ arg_terminator = <<>> /\ Len(sql) > 0

\* C8: a parse call on a used instance ends as the same call on a freshly
\* constructed instance of the dialect does: same outcome, same tokens
C8_IdempotentReuse ==
  pc \in {"done", "raised"} =>
    LET f == FreshParse(dialect, sql, arg_terminator, line_split)
    IN  /\ f.pc = pc
        /\ f.exc = exc
        /\ pc = "done" => f.tokens = tokens

C8_Witness ==
  /\ calls = 2 /\ pc = "done"
  /\ Len(tokens) = 2 /\ tokens[1].type = "ERROR"

\* C9: without line splitting, every token's line and column are the
\* 1-based position of the first character of its source in the input, CR,
\* CRLF and LF each being one line break; both are at least 1 and positions
\* never decrease along the sequence
C9_PositionInvariant ==
  (pc = "done" /\ ~line_split) =>
    /\ \A i \in 1..Len(tokens) :
         /\ tokens[i].line = LineAt(sql, Offset(tokens, i))
         /\ tokens[i].column = ColumnAt(sql, Offset(tokens, i))
         /\ tokens[i].line >= 1 /\ tokens[i].column >= 1
    /\ \A i \in 1..(Len(tokens) - 1) :
         \/ tokens[i].line < tokens[i + 1].line
         \/ /\ tokens[i].line = tokens[i + 1].line
            /\ tokens[i].column <= tokens[i + 1].column

\* a token on the second line, after a CRLF
C9_Witness ==
  /\ pc = "done" /\ ~line_split
  /\ Len(sql) = 3 /\ sql[1] = CR /\ sql[2] = LF
  /\ tokens[2].line = 2 /\ tokens[2].column = 1 /\ tokens[2].source # <<>>

\* C10: without line splitting, no WHITESPACE token is directly followed by
\* a WHITESPACE token and no COMMENT token by a COMMENT token
C10_NoAdjacentSameType ==
  (pc = "done" /\ ~line_split) =>
    \A i \in 1..(Len(tokens) - 1) :
      tokens[i].type \in {"WHITESPACE", "COMMENT"} => tokens[i + 1].type # tokens[i].type

\* C11: in a parse result every EOF, WHITESPACE and TERMINATOR token has the
\* value None
C11_ValueByType ==
  pc = "done" =>
    \A i \in 1..Len(tokens) :
      tokens[i].type \in {"EOF", "WHITESPACE", "TERMINATOR"} => tokens[i].value = NoneVal

\* C12: when an iteration of the loop starts where the rest of the input
\* begins with the terminator the caller passed, the iteration adds exactly
\* one token, a TERMINATOR whose source is that terminator text
C12_TerminatorMatch ==
  (pc = "scan" /\ GetChar(Self) # NUL /\ StartsWith(sql, arg_terminator, index)) =>
    LET r == Dispatch(Self)
    IN  /\ r.exc = ""
        /\ Len(r.tokens) = Len(tokens) + 1
        /\ r.tokens[Len(r.tokens)].type = "TERMINATOR"
        /\ r.tokens[Len(r.tokens)].source = arg_terminator

\* C13: the last token of a parse result is an EOF token with value None and
\* an empty source, placed at the end of the input
C13_FinalEOF ==
  pc = "done" =>
    LET eof == tokens[Len(tokens)]
    IN  /\ eof.type = "EOF"
        /\ eof.value = NoneVal
        /\ eof.source = <<>>
        /\ eof.line = LineAt(sql, Len(sql))
        /\ eof.column = ColumnAt(sql, Len(sql))

\* the text after an opening quote q never reaches a closing quote: every
\* quote in it is one of a doubled pair
RECURSIVE NoClosingQuote(_, _)
NoClosingQuote(s, q) ==
  IF s = <<>> THEN TRUE
  ELSE IF s[1] = q THEN Len(s) > 1 /\ s[2] = q /\ NoClosingQuote(SubSeq(s, 3, Len(s)), q)
  ELSE NoClosingQuote(Tail(s), q)

\* the text after an opening slash-star holds no star-slash
NoCommentEnd(s) == ~\E i \in 1..(Len(s) - 1) : s[i] = "*" /\ s[i + 1] = "/"

\* the rest of the input, from the cursor
Rest == Slice(sql, index, Len(sql))

\* the cursor is on the opening quote of a string literal that is never closed
AtOpenString ==
  /\ pc = "scan" /\ MultilineStr(dialect)
  /\ At(sql, index) = "'" /\ JumpGet(jump, "'") = "apos"
  /\ NoClosingQuote(Tail(Rest), "'")

\* the cursor is on the opening of a C comment that is never closed
AtOpenComment ==
  /\ pc = "scan" /\ CComments(dialect)
  /\ At(sql, index) = "/" /\ At(sql, index + 1) = "*" /\ JumpGet(jump, "/") = "slash"
  /\ NoCommentEnd(Slice(sql, index + 2, Len(sql)))

\* the iteration r added one ERROR token that takes the rest of the input,
\* so the loop ends and the EOF token follows
OneErrorToEnd(r) ==
  /\ r.exc = ""
  /\ r.tokens = Append(tokens, r.tokens[Len(r.tokens)])
  /\ r.tokens[Len(r.tokens)].type = "ERROR"
  /\ r.tokens[Len(r.tokens)].source = Rest
  /\ GetChar(r) = NUL

\* C14: a string literal or a C comment that is not closed before the end of
\* the input becomes one ERROR token holding the rest of the input from the
\* opening delimiter, and the EOF token follows it
C14_UnterminatedDegrades ==
  (AtOpenString \/ AtOpenComment) => OneErrorToEnd(Dispatch(Self))

\* the part of s before its first line break (all of s if it has none)
RECURSIVE UpToBreak(_)
UpToBreak(s) ==
  IF s = <<>> \/ s[1] \in {CR, LF} THEN <<>> ELSE <<s[1]>> \o UpToBreak(Tail(s))

\* the cursor is on the two dashes that open a comment
AtLineComment ==
  /\ pc = "scan" /\ SqlComments(dialect)
  /\ At(sql, index) = "-" /\ At(sql, index + 1) = "-" /\ JumpGet(jump, "-") = "minus"

\* C15: a comment opened by two dashes becomes one COMMENT token that ends
\* before the line break closing it: its source is the text from the dashes
\* up to, not including, the line break, and its value is that text without
\* the dashes
C15_LineCommentEndsBeforeBreak ==
  AtLineComment =>
    LET r == Dispatch(Self)
        tok == r.tokens[Len(r.tokens)]
    IN  /\ r.exc = ""
        /\ r.tokens = Append(tokens, tok)
        /\ tok.type = "COMMENT"
        /\ tok.source = UpToBreak(Rest)
        /\ tok.value = StrVal(SubSeq(UpToBreak(Rest), 3, Len(UpToBreak(Rest))))

\* the longest prefix of s made of characters of cs
RECURSIVE RunOf(_, _)
RunOf(s, cs) ==
  IF s = <<>> \/ s[1] \notin cs THEN <<>> ELSE <<s[1]>> \o RunOf(Tail(s), cs)

\* the cursor is on a colon that an unquoted name follows
AtNamedParameter ==
  /\ pc = "scan" /\ At(sql, index) = ":" /\ JumpGet(jump, ":") = "colon"
  /\ At(sql, index + 1) \in IdentChars(dialect)

\* the cursor is on a question mark
AtAnonymousParameter ==
  pc = "scan" /\ At(sql, index) = "?" /\ JumpGet(jump, "?") = "question"

\* C16: a colon followed by an unquoted name becomes one PARAMETER token
\* whose value is the name in upper case, and a question mark becomes one
\* PARAMETER token whose value is None
C16_Parameters ==
  LET r == Dispatch(Self)
      tok == r.tokens[Len(r.tokens)]
      name == RunOf(Tail(Rest), IdentChars(dialect))
  IN  /\ AtNamedParameter =>
           /\ r.exc = "" /\ r.tokens = Append(tokens, tok)
           /\ tok.type = "PARAMETER"
           /\ tok.source = <<":">> \o name
           /\ tok.value = StrVal(Upper(name))
      /\ AtAnonymousParameter =>
           /\ r.exc = "" /\ r.tokens = Append(tokens, tok)
           /\ tok.type = "PARAMETER"
           /\ tok.source = <<"?">>
           /\ tok.value = NoneVal

\* position in s of the quote that closes the literal, looking from position
\* i on; a quote directly followed by a quote is a doubled pair; 0 if there
\* is no closing quote
RECURSIVE ClosingQuote(_, _)
ClosingQuote(s, i) ==
  IF i > Len(s) THEN 0
  ELSE IF s[i] = "'" THEN
    IF i < Len(s) /\ s[i + 1] = "'" THEN ClosingQuote(s, i + 2) ELSE i
  ELSE ClosingQuote(s, i + 1)

\* every doubled quote of s replaced by one quote
RECURSIVE SingleQuotes(_)
SingleQuotes(s) ==
  IF s = <<>> THEN <<>>
  ELSE IF s[1] = "'" /\ Len(s) > 1 /\ s[2] = "'" THEN <<"'">> \o SingleQuotes(SubSeq(s, 3, Len(s)))
  ELSE <<s[1]>> \o SingleQuotes(Tail(s))

\* every line break of s (CRLF, CR, LF) written as one LF
RECURSIVE BreaksAsLF(_)
BreaksAsLF(s) ==
  IF s = <<>> THEN <<>>
  ELSE IF s[1] = CR /\ Len(s) > 1 /\ s[2] = LF THEN <<LF>> \o BreaksAsLF(SubSeq(s, 3, Len(s)))
  ELSE IF s[1] = CR THEN <<LF>> \o BreaksAsLF(Tail(s))
  ELSE <<s[1]>> \o BreaksAsLF(Tail(s))

\* the cursor is on the opening quote of a well-formed string literal
AtStringLiteral ==
  /\ pc = "scan" /\ At(sql, index) = "'" /\ JumpGet(jump, "'") = "apos"
  /\ ClosingQuote(Rest, 2) > 0

\* the text between the quotes of the literal at the cursor
Enclosed == SubSeq(Rest, 2, ClosingQuote(Rest, 2) - 1)

\* the iteration r added one STRING token that runs from the opening quote
\* through the closing quote
OneStringToken(r) ==
  /\ r.exc = ""
  /\ r.tokens = Append(tokens, r.tokens[Len(r.tokens)])
  /\ r.tokens[Len(r.tokens)].type = "STRING"
  /\ r.tokens[Len(r.tokens)].source = SubSeq(Rest, 1, ClosingQuote(Rest, 2))

\* C17 as stated: a well-formed single-quoted literal becomes one STRING
\* token from its opening quote through its closing quote, whose value is
\* the enclosed text with every doubled quote replaced by one quote
C17_StringValueVerbatim ==
  AtStringLiteral =>
    LET r == Dispatch(Self)
    IN  /\ OneStringToken(r)
        /\ r.tokens[Len(r.tokens)].value = StrVal(SingleQuotes(Enclosed))

\* C17: a well-formed single-quoted literal becomes one STRING token from its
\* opening quote through its closing quote, whose value is the enclosed text
\* with every line break written as LF and every doubled quote replaced by
\* one quote
C17_StringLiteral ==
  AtStringLiteral =>
    LET r == Dispatch(Self)
    IN  /\ OneStringToken(r)
        /\ r.tokens[Len(r.tokens)].value = StrVal(SingleQuotes(BreaksAsLF(Enclosed)))

\* a literal that starts with a doubled quote
C17_Witness ==
  /\ AtStringLiteral
  /\ Rest = <<"'", "'", "'", "a", "'">>
  /\ Dispatch(Self).tokens[1].value = StrVal(<<"'", "a">>)

\* the cursor is on an x that a closed quoted text directly follows
AtHexLiteral ==
  /\ pc = "scan" /\ dialect = "DB2LUW"
  /\ At(sql, index) \in {"x", "X"} /\ JumpGet(jump, At(sql, index)) = "hexstring"
  /\ At(sql, index + 1) = "'"
  /\ ClosingQuote(Tail(Rest), 2) > 0

\* the text between the quotes of the hex literal at the cursor
HexBody == SubSeq(Tail(Rest), 2, ClosingQuote(Tail(Rest), 2) - 1)

\* the characters that the digit pairs of s spell
HexPairs(s) ==
  [i \in 1..(Len(s) \div 2) |-> Chr(16 * HexValue(s[2 * i - 1]) + HexValue(s[2 * i]))]

\* C18: in the DB2 dialects an x directly followed by a quoted text becomes
\* one token that covers the literal, after which the scan goes on: a STRING
\* token with the decoded characters if the text is pairs of hex digits, an
\* ERROR token if it has an odd length or a character that is no hex digit
C18_HexLiteral ==
  AtHexLiteral =>
    LET r == Dispatch(Self)
        tok == r.tokens[Len(r.tokens)]
        wellformed == Len(HexBody) % 2 = 0 /\ \A i \in 1..Len(HexBody) : HexBody[i] \in HexDigits
    IN  /\ r.exc = ""
        /\ r.tokens = Append(tokens, tok)
        /\ tok.source = SubSeq(Rest, 1, ClosingQuote(Tail(Rest), 2) + 1)
        /\ r.index = index + Len(tok.source)
        /\ IF wellformed
           THEN tok.type = "STRING" /\ tok.value = StrVal(HexPairs(HexBody))
           ELSE tok.type = "ERROR"

\* the cursor is on the first character of the terminator, and the
\* terminator is not what follows
AtFailedTerminator ==
  /\ pc = "scan" /\ GetChar(Self) # NUL
  /\ JumpGet(jump, GetChar(Self)) = "terminator"
  /\ ~StartsWith(source, terminator, index)

\* C19: where the character under the cursor is the first of the terminator
\* but the terminator does not match, the iteration does what the handler of
\* that character in the table of _init_jump does, the handler of an
\* unrecognised character if the table has none
C19_TerminatorFallback ==
  AtFailedTerminator =>
    Dispatch(Self) = CallHandler(JumpGet(InitJump(dialect), GetChar(Self)), Self)

\* the handler of c in the table _init_jump builds, None if it has none
InitHandler(c) ==
  IF c \in DOMAIN InitJump(dialect) THEN InitJump(dialect)[c] ELSE "None"

\* the jump table is the table of _init_jump but for the entry of c, which
\* is the terminator handler, and the handler saved is the one c has there
FrameAt(c) ==
  /\ DOMAIN jump = DOMAIN InitJump(dialect) \cup {c}
  /\ \A d \in DOMAIN jump : jump[d] = IF d = c THEN "terminator" ELSE InitJump(dialect)[d]
  /\ savedhandler = InitHandler(c)

\* C20 as stated: once _init_jump has run, whatever terminators were
\* assigned since, the jump table is the table of _init_jump in every entry
\* but the one of the first character of the terminator assigned last, which
\* is the terminator handler, and the saved handler is the _init_jump handler
\* of that character
C20_FrameAtAssignedChar ==
  (calls > 0 /\ assigned # NoneStr) => FrameAt(assigned[1])

\* C20: once _init_jump has run, whatever terminators were assigned since,
\* the terminator kept is the one assigned last, with LF for CR LF or CR; the
\* jump table is the table of _init_jump in every entry but the one of the
\* first character of the terminator kept, which is the terminator handler,
\* and the saved handler is the _init_jump handler of that character
C20_TerminatorFrame ==
  calls > 0 =>
    IF assigned = NoneStr THEN terminator = NoneStr /\ jump = InitJump(dialect)
    ELSE /\ terminator = (IF assigned \in {<<CR, LF>>, <<CR>>} THEN <<LF>> ELSE assigned)
         /\ FrameAt(terminator[1])

\* the terminator was changed after the call set it: the entry of "!",
\* which the SQL92 table does not have, is gone again
C20_Witness ==
  /\ dialect = "SQL92" /\ pc = "scan"
  /\ arg_terminator = <<"!">> /\ assigned = <<";">> /\ terminator = <<";">>
  /\ "!" \notin DOMAIN jump /\ savedhandler = "semicolon"

\* the cursor is on the first of two periods, in the DB2 for LUW dialect
AtDoublePeriod ==
  /\ pc = "scan" /\ dialect = "DB2LUW"
  /\ At(sql, index) = "." /\ At(sql, index + 1) = "." /\ JumpGet(jump, ".") = "period"

\* C21: in the DB2 for LUW dialect two periods become one OPERATOR token of
\* value '..' whose source is the two periods and whose position is that of
\* the first period; the next token starts after the second period
C21_DoublePeriod ==
  AtDoublePeriod =>
    LET r == Dispatch(Self)
        tok == r.tokens[Len(r.tokens)]
    IN  /\ r.exc = ""
        /\ r.tokens = Append(tokens, tok)
        /\ tok.type = "OPERATOR" /\ tok.value = StrVal(<<".", ".">>)
        /\ tok.source = <<".", ".">>
        /\ tok.line = LineAt(sql, index) /\ tok.column = ColumnAt(sql, index)
        /\ r.index = index + 2 /\ r.tokenstart = index + 2

\* the cursor is on a letter that can open a DB2 literal (x, n, g, u), and
\* what follows is not the quote of such a literal: neither a quote after x,
\* n or g, nor an x and a quote after g or u, nor an ampersand after u
AtPrefixWord ==
  /\ pc = "scan" /\ dialect = "DB2LUW" /\ GetChar(Self) # NUL
  /\ JumpGet(jump, At(sql, index)) \in {"hexstring", "unistring", "utf8string"}
  /\ ~(UpperChar(At(sql, index)) \in {"X", "N", "G"} /\ At(sql, index + 1) = "'")
  /\ ~(/\ UpperChar(At(sql, index)) \in {"G", "U"}
       /\ UpperChar(At(sql, index + 1)) = "X" /\ At(sql, index + 2) = "'")
  /\ ~(UpperChar(At(sql, index)) = "U" /\ At(sql, index + 1) = "&")

\* C22: in the DB2 dialects a word that starts with a literal prefix letter
\* but is not followed by the quote of the literal is scanned as the
\* identifier handler scans it at that position: one token whose value is
\* the whole word in upper case
C22_PrefixFallback ==
  AtPrefixWord => Dispatch(Self) = HandleIdent(Self)

\* position in s of the quote q that closes a quoted text, looking from
\* position i on, 0 if there is none
RECURSIVE ClosingOf(_, _, _)
ClosingOf(s, i, q) ==
  IF i > Len(s) THEN 0
  ELSE IF s[i] = q THEN
    IF i < Len(s) /\ s[i + 1] = q THEN ClosingOf(s, i + 2, q) ELSE i
  ELSE ClosingOf(s, i + 1, q)

\* the words the DB2 for LUW dialect turns into numbers after the handler
SpecialNumbers ==
  {<<"I", "N", "F", "I", "N", "I", "T", "Y">>, <<"N", "A", "N">>, <<"S", "N", "A", "N">>}

\* the cursor is on the first character of an unquoted identifier
AtUnquotedIdent ==
  /\ pc = "scan" /\ GetChar(Self) # NUL
  /\ JumpGet(jump, GetChar(Self)) = "ident"

\* the cursor is on the opening quote of a quoted identifier that is closed
\* on its line
AtQuotedIdent ==
  /\ pc = "scan" /\ At(sql, index) = "\"" /\ JumpGet(jump, "\"") = "quote"
  /\ ClosingOf(Rest, 2, "\"") > 0
  /\ \A i \in 1..ClosingOf(Rest, 2, "\"") : Rest[i] \notin {CR, LF}

EndsWith(s, t) == Len(s) >= Len(t) /\ SubSeq(s, Len(s) - Len(t) + 1, Len(s)) = t

\* the iteration r consumed src, and the colon if one follows src, and added
\* one token of value val, which is a LABEL, with the colon at the end of
\* its source, if a colon follows src, and of type other if not
OneWordToken(r, src, val, other) ==
  LET tok == r.tokens[Len(r.tokens)]
      colon == At(Rest, Len(src)) = ":"
      consumed == IF colon THEN src \o <<":">> ELSE src
  IN  /\ r.exc = ""
      /\ r.tokens = Append(tokens, tok)
      /\ r.index = index + Len(consumed)
      /\ tok.value = StrVal(val)
      /\ EndsWith(tok.source, consumed)
      /\ tok.type = (IF colon THEN "LABEL" ELSE other)

AtBareExponent ==
  LET digits == RunOf(Rest, Digits)
      e == Len(digits)
      d == IF At(Rest, e + 1) \in {"+", "-"} THEN e + 2 ELSE e + 1
  IN  /\ pc = "scan" /\ GetChar(Self) # NUL
      /\ JumpGet(jump, GetChar(Self)) = "digit"
      /\ At(Rest, e) \in {"E", "e"}
      /\ At(Rest, d) \notin Digits

\* C24: a number whose exponent marker has no digits becomes one ERROR
\* token, no NUMBER token, and parse goes on
C24_MalformedNumber ==
  AtBareExponent =>
    LET r == Dispatch(Self)
    IN  /\ r.exc = ""
        /\ r.tokens = Append(tokens, r.tokens[Len(r.tokens)])
        /\ r.tokens[Len(r.tokens)].type = "ERROR"
        /\ r.index > index

\* the cursor is on the opening quote of a quoted identifier that a line
\* break or the end of the input cuts off
AtCutQuotedIdent ==
  /\ pc = "scan" /\ At(sql, index) = "\"" /\ JumpGet(jump, "\"") = "quote"
  /\ ClosingOf(UpToBreak(Rest), 2, "\"") = 0

\* C25: the ERROR token for a quoted string that is not closed, be it cut
\* off by the end of the input or, where line breaks are not allowed, by a
\* line break, has a message that names the line the string started on
C25_UnterminatedMessage ==
  (AtOpenString \/ AtCutQuotedIdent) =>
    LET r == Dispatch(Self)
        tok == r.tokens[Len(r.tokens)]
    IN  (r.exc = "" /\ Len(r.tokens) = Len(tokens) + 1 /\ tok.type = "ERROR") =>
          tok.value = MsgVal(<<"Unterminated string starting on line %d">>, LineAt(sql, index))

\* C26: with line splitting, the line and the column of every returned token
\* are the 1-based position of the first character of its source in the
\* input, CR, CRLF and LF each being one line break
C26_SplitPositions ==
  (pc = "done" /\ line_split) =>
    \A i \in 1..Len(tokens) :
      /\ tokens[i].line = LineAt(sql, Offset(tokens, i))
      /\ tokens[i].column = ColumnAt(sql, Offset(tokens, i))

\* C27: with line splitting, the only returned token with an empty source is
\* the final EOF
C27_NoEmptyFragment ==
  (pc = "done" /\ line_split) =>
    \A i \in 1..Len(tokens) :
      tokens[i].source = <<>> => (i = Len(tokens) /\ tokens[i].type = "EOF")

\* C28: every TERMINATOR token in a parse result has the configured
\* terminator as its source
C28_TerminatorOnlyConfigured ==
  (pc = "done" /\ ~line_split) =>
    \A i \in 1..Len(tokens) :
      tokens[i].type = "TERMINATOR" => tokens[i].source = arg_terminator

\* the cursor is on a period that starts a lexeme with a second period
\* after a digit: ".1.2"
AtTwoPoints ==
  /\ pc = "scan"
  /\ Len(Rest) >= 4
  /\ Rest[1] = "." /\ Rest[2] \in Digits /\ Rest[3] = "." /\ Rest[4] \in Digits
  /\ JumpGet(jump, ".") = "period"

\* C29: a numeric lexeme that starts with a period ends before a second
\* period: at ".1.2" the step returns one NUMBER token of source ".1"
C29_OnePointPerNumber ==
  AtTwoPoints =>
    LET r == Dispatch(Self)
    IN  /\ r.exc = ""
        /\ Len(r.tokens) = Len(tokens) + 1
        /\ r.tokens[Len(r.tokens)].type = "NUMBER"
        /\ r.tokens[Len(r.tokens)].source = Slice(Rest, 0, 2)

\* every RETRY clause of the script has a number
FiniteRetries ==
  \A i \in 1..Len(statements) : statements[i].retry_count >= 0

\* C30: a script whose RETRY clauses all have a number leaves the statement
\* loop of _exec_internal, whatever its statements return
C30_RetryTerminates ==
  (exec_pc = "loop" /\ FiniteRetries) ~> (exec_pc = "returned")

====
